---- MODULE Spec2Model ----
(***************************************************************************)
(* Model of agriwebb-rain: a scheduled AWS Lambda that reads yesterday's   *)
(* rainfall from the Tempest API (tempest.py), and records it in AgriWebb  *)
(* (agriwebb.py), sequenced by lambda_handler (main.py).                   *)
(***************************************************************************)
EXTENDS Integers, Sequences, FiniteSets, TLC

VARIABLES
    pc,                 \* where lambda_handler / update_rainfall stands
    inv,                \* invocations started so far
    clock,              \* the current UTC calendar day (days since the epoch)
    features,           \* AgriWebb: the map features, by sensor number
    stored,             \* AgriWebb: it stored the rainfall this invocation sent
    api_response,       \* main.py: the decoded Tempest response body
    observations_count, \* main.py: len(rainfall_observations)
    time_start,         \* tempest.py: the time_start parameter of the GET
    rainfall_mm,        \* main.py
    rainfall_inches,    \* main.py, in thousandths of an inch
    date,               \* main.py: `yesterday`, a UTC calendar day
    time_ms,            \* main.py
    farm_id,            \* main.py: agriwebb_farm_id
    sensor_id,          \* agriwebb.py: update_rainfall's sensor_id
    calls,              \* the calls to other systems made by this invocation
    result,             \* the record lambda_handler returned
    error               \* the exception lambda_handler raised

locals == <<api_response, observations_count, time_start, rainfall_mm,
            rainfall_inches, date, time_ms, farm_id, sensor_id>>
remote == <<features, stored>>
vars == <<pc, inv, clock, features, stored, api_response, observations_count,
          time_start, rainfall_mm, rainfall_inches, date, time_ms, farm_id,
          sensor_id, calls, result, error>>

(***************************************************************************)
(* Bounds of the model.                                                    *)
(***************************************************************************)
\* most observations in the obs list of a Tempest response
MaxObs == 2
\* most fields in an array-encoded observation
MaxObsLen == 2
\* most entries in a response's field_map
MaxFieldMap == 2
\* most map features AgriWebb holds
MaxFeatures == 2
\* most invocations of lambda_handler in a behaviour
MaxInvocations == 2
\* last UTC calendar day the clock reaches
MaxDay == 2
\* most entries in the `errors` list of a GraphQL response
MaxErrors == 2

(***************************************************************************)
(* Python values.  A JSON scalar is a record [k, n]; containers are        *)
(* records that carry what the code can observe of them: their type,       *)
(* truthiness, whether `'precip_accum_local_yesterday' in x` holds, and    *)
(* the value stored under that key.                                        *)
(***************************************************************************)
PyNone == [k |-> "none", n |-> 0]
PyNum(n) == [k |-> "num", n |-> n]

\* rainfall readings (mm) that occur in the responses of the model
Nums == {1, 2}
Vals == {PyNone} \cup {PyNum(n) : n \in Nums}

\* a value found under 'summary' / 'obs_summary' (or the key being absent)
SubAbsent == [k |-> "absent", empty |-> TRUE, has |-> FALSE, v |-> PyNone]
SubNull == [k |-> "null", empty |-> TRUE, has |-> FALSE, v |-> PyNone]
SubEmptyDict == [k |-> "dict", empty |-> TRUE, has |-> FALSE, v |-> PyNone]
SubDictNoKey == [k |-> "dict", empty |-> FALSE, has |-> FALSE, v |-> PyNone]
SubDictKey(v) == [k |-> "dict", empty |-> FALSE, has |-> TRUE, v |-> v]
\* a non-zero number where a mapping was expected
SubNum == [k |-> "num", empty |-> FALSE, has |-> FALSE, v |-> PyNone]
\* the string "precip_accum_local_yesterday" where a mapping was expected
SubStrKey == [k |-> "str", empty |-> FALSE, has |-> TRUE, v |-> PyNone]
Subs == {SubAbsent, SubNull, SubDictNoKey, SubNum, SubStrKey}
            \cup {SubDictKey(v) : v \in Vals}

\* one observation: a mapping, a positional array, or a scalar
ElDictNoKey == [k |-> "dict", has |-> FALSE, v |-> PyNone, items |-> <<>>]
ElDictKey(v) == [k |-> "dict", has |-> TRUE, v |-> v, items |-> <<>>]
ElArray(a) == [k |-> "list", has |-> FALSE, v |-> PyNone, items |-> a]
ElScalar == [k |-> "num", has |-> FALSE, v |-> PyNone, items |-> <<>>]
Arrays == UNION {[1..n -> {PyNum(x) : x \in Nums}] : n \in 0..MaxObsLen}
Elements == {ElDictNoKey, ElScalar} \cup {ElDictKey(v) : v \in Vals}
                \cup {ElArray(a) : a \in Arrays}

\* the value under 'obs': absent, a list of observations, or a mis-shaped
\* value (a non-empty mapping, a non-zero number)
ObsAbsent == [k |-> "absent", elems |-> <<>>]
ObsNull == [k |-> "null", elems |-> <<>>]
ObsList(es) == [k |-> "list", elems |-> es]
ObsDict == [k |-> "dict", elems |-> <<>>]
ObsNum == [k |-> "num", elems |-> <<>>]
\* the observations before the latest one all read 2 mm, as a mapping
Earlier == ElDictKey(PyNum(2))
ObsLists == {ObsList([i \in 1..n |-> IF i = n THEN last ELSE Earlier]) :
                n \in 1..MaxObs, last \in Elements}
Obss == {ObsAbsent, ObsNull, ObsDict, ObsNum, ObsList(<<>>)} \cup ObsLists

\* field_map: JSON object keys are strings (sequences of characters),
\* listed in the order the mapping iterates them
TargetKey == "precip_accum_local_yesterday"
IdxKeys == {<<"0">>, <<"1">>, <<"x">>}
FieldNames == {TargetKey, "timestamp"}
FmEntries == [idx : IdxKeys, name : FieldNames]
FmAbsent == [k |-> "absent", entries |-> <<>>]
FmDict(es) == [k |-> "dict", entries |-> es]
\* a non-empty list where a mapping was expected
FmList == [k |-> "list", entries |-> <<>>]
FmSeqs == UNION {[1..n -> FmEntries] : n \in 0..MaxFieldMap}
DistinctKeys(es) == \A i, j \in DOMAIN es : i # j => es[i].idx # es[j].idx
FieldMaps == {FmAbsent, FmList} \cup {FmDict(es) : es \in {s \in FmSeqs : DistinctKeys(s)}}

\* the key at the top level of the response
RootAbsent == [has |-> FALSE, v |-> PyNone]
RootKey(v) == [has |-> TRUE, v |-> v]
Roots == {RootAbsent} \cup {RootKey(v) : v \in Vals}

\* a decoded response body: a mapping with the fields the code looks at, or
\* a body that is no mapping
DictResponses == [k : {"dict"}, summary : Subs, obs_summary : Subs, obs : Obss,
                  field_map : FieldMaps, root : Roots]
NonDict(kind) == [k |-> kind, summary |-> SubAbsent, obs_summary |-> SubAbsent,
                  obs |-> ObsAbsent, field_map |-> FmAbsent, root |-> RootAbsent]
Responses == DictResponses \cup {NonDict("list"), NonDict("null"), NonDict("num")}

(***************************************************************************)
(* Python operations on those values.  An evaluation either yields a value *)
(* or raises.                                                              *)
(***************************************************************************)
Ret(v) == [st |-> "return", v |-> v, exc |-> ""]
Exc(e) == [st |-> "raise", v |-> PyNone, exc |-> e]
\* the probe found nothing: control goes on to the next statement
Next_ == [st |-> "next", v |-> PyNone, exc |-> ""]
Then(p, q) == IF p.st = "next" THEN q ELSE p

\* dict.get(key, {}) / dict.get(key, [])
Get(x) == IF x.k = "absent" THEN SubEmptyDict ELSE x
Truthy(x) == x.k # "null" /\ ~x.empty

Digit(c) == CASE c = "0" -> 0 [] c = "1" -> 1 [] c = "2" -> 2 [] c = "3" -> 3
              [] c = "4" -> 4 [] c = "5" -> 5 [] c = "6" -> 6 [] c = "7" -> 7
              [] c = "8" -> 8 [] c = "9" -> 9 [] OTHER -> -1
RECURSIVE DigitsVal(_)
DigitsVal(s) == IF s = <<>> THEN 0
                ELSE 10 * DigitsVal(SubSeq(s, 1, Len(s) - 1)) + Digit(s[Len(s)])
AllDigits(s) == s # <<>> /\ \A i \in DOMAIN s : Digit(s[i]) >= 0
\* int(idx) for a string idx: an optional sign and decimal digits, else ValueError
ParseInt(s) ==
    IF s # <<>> /\ s[1] \in {"-", "+"}
    THEN IF AllDigits(Tail(s))
         THEN Ret(PyNum(IF s[1] = "-" THEN 0 - DigitsVal(Tail(s)) ELSE DigitsVal(Tail(s))))
         ELSE Exc("ValueError")
    ELSE IF AllDigits(s) THEN Ret(PyNum(DigitsVal(s))) ELSE Exc("ValueError")

\* seq[i] for a Python list of length Len(items) and an int i
ListIndex(items, i) ==
    LET j == IF i < 0 THEN i + Len(items) ELSE i
    IN  IF j >= 0 /\ j < Len(items) THEN Ret(items[j + 1]) ELSE Exc("IndexError")

(***************************************************************************)
(* tempest.py: extract_precip_accum_local_yesterday                        *)
(***************************************************************************)
\* lines 114-118 and 121-125: `x = api_response.get(name, {})`,
\* `if x and KEY in x: return x[KEY]`
ProbeSub(raw) ==
    LET x == Get(raw)
    IN  IF ~Truthy(x) THEN Next_
        ELSE IF x.k = "num" THEN Exc("TypeError")
        ELSE IF ~x.has THEN Next_
        ELSE IF x.k = "dict" THEN Ret(x.v)
        ELSE Exc("TypeError")

\* position in field_map.items() of the first entry that names the key, or 0
FirstTarget(entries) ==
    LET hits == {i \in DOMAIN entries : entries[i].name = TargetKey}
    IN  IF hits = {} THEN 0 ELSE CHOOSE i \in hits : \A j \in hits : i <= j

\* lines 144-154: the latest observation is a non-empty list
ProbeFieldMap(latest_obs, field_map) ==
    IF field_map.k = "list" THEN Exc("AttributeError")
    ELSE IF field_map.entries = <<>> THEN Next_
    ELSE LET t == FirstTarget(field_map.entries)
         IN  IF t = 0 THEN Next_
             ELSE LET field_index == ParseInt(field_map.entries[t].idx)
                  IN  IF field_index.st = "raise" THEN field_index
                      ELSE IF Len(latest_obs.items) > field_index.v.n
                           THEN ListIndex(latest_obs.items, field_index.v.n)
                           ELSE Next_

\* lines 128-154: `obs = api_response.get('obs', [])` and its latest element
ProbeLatestObs(resp) ==
    LET obs == resp.obs
    IN  IF obs.k \in {"absent", "null"} THEN Next_
        ELSE IF obs.k = "num" THEN Exc("TypeError")
        ELSE IF obs.k = "dict" THEN Exc("KeyError")
        ELSE IF obs.elems = <<>> THEN Next_
        ELSE LET latest_obs == obs.elems[Len(obs.elems)]
             IN  IF latest_obs.k = "dict"
                 THEN IF latest_obs.has THEN Ret(latest_obs.v) ELSE Next_
                 ELSE IF latest_obs.k = "list" /\ Len(latest_obs.items) > 0
                      THEN ProbeFieldMap(latest_obs, resp.field_map)
                      ELSE Next_

\* the root level probed as one more branch of the obs test: skipped when the
\* response has a non-empty obs
ProbeRoot_OnlyWithoutObs(resp) ==
    IF resp.obs.k = "list" /\ resp.obs.elems # <<>> THEN Next_
    ELSE IF resp.root.has THEN Ret(resp.root.v) ELSE Next_

\* lines 157-160
ProbeRoot(resp) == IF resp.root.has THEN Ret(resp.root.v) ELSE Next_

\* obs_summary probed before summary
ExtractBody_ObsSummaryFirst(resp) ==
    IF resp.k = "dict"
    THEN Then(ProbeSub(resp.obs_summary),
         Then(ProbeSub(resp.summary),
         Then(ProbeLatestObs(resp),
         Then(ProbeRoot(resp), Ret(PyNone)))))
    ELSE Ret(PyNone)

\* lines 111-164, the body of the try block
ExtractBody(resp) ==
    IF resp.k = "dict"
    THEN Then(ProbeSub(resp.summary),
         Then(ProbeSub(resp.obs_summary),
         Then(ProbeLatestObs(resp),
         Then(ProbeRoot(resp), Ret(PyNone)))))
    ELSE Ret(PyNone)

\* `except (KeyError, IndexError, TypeError): return None`
CatchAll_LookupErrorsOnly(r) ==
    IF r.st = "raise" /\ r.exc \in {"KeyError", "IndexError", "TypeError"}
    THEN Ret(PyNone) ELSE r

\* lines 110, 166-168: `except Exception: return None`
CatchAll(r) == IF r.st = "raise" THEN Ret(PyNone) ELSE r

extract_precip_accum_local_yesterday(resp) == CatchAll(ExtractBody(resp))

(***************************************************************************)
(* The systems lambda_handler talks to.                                    *)
(***************************************************************************)
NoneId == [t |-> "none", n |-> 0]
FarmId(i) == [t |-> "farm", n |-> i]
SensorId(i) == [t |-> "sensor", n |-> i]
Farms == {FarmId(1), FarmId(2)}

\* agriwebb.py lines 17-19
RAIN_GAUGE_NAME == "Tempest"
RAIN_GAUGE_UNIT == "inch"
RAIN_GAUGE_MODE == "cumulative"

\* AgriWebb's map features: sensor number -> the feature, or no such feature
NoFeature == [present |-> FALSE, name |-> "", type |-> "", farmId |-> NoneId]
Feature(nm, ty, f) == [present |-> TRUE, name |-> nm, type |-> ty, farmId |-> f]
FeatureSlots ==
    {NoFeature,
     Feature(RAIN_GAUGE_NAME, "RAIN_GAUGE", FarmId(1)),
     Feature(RAIN_GAUGE_NAME, "RAIN_GAUGE", FarmId(2)),
     Feature("Creek gauge", "RAIN_GAUGE", FarmId(1)),
     Feature(RAIN_GAUGE_NAME, "WATER_TROUGH", FarmId(1))}
FeatureMaps == [1..MaxFeatures -> FeatureSlots]

\* What AgriWebb answers to the query of agriwebb.py lines 78-90,
\* mapFeatures(filter: {type: {_eq: RAIN_GAUGE} farmId: {_eq: farm}}) {id ...}:
\* the ids of the features that pass the filter, in AgriWebb's order
RECURSIVE MapFeaturesFrom(_, _, _)
MapFeaturesFrom(fs, farm, i) ==
    IF i > MaxFeatures THEN <<>>
    ELSE (IF fs[i].present /\ fs[i].type = "RAIN_GAUGE" /\ fs[i].farmId = farm
          THEN <<SensorId(i)>> ELSE <<>>) \o MapFeaturesFrom(fs, farm, i + 1)
MapFeaturesQuery(fs, farm) == MapFeaturesFrom(fs, farm, 1)

\* the `errors` list of a GraphQL response: each entry is a mapping, with a
\* message string or without one (then the code reports str(err))
GraphQLErrors == {[has |-> TRUE, message |-> "Invalid sensor"],
                  [has |-> TRUE, message |-> "Invalid time"],
                  [has |-> FALSE, message |-> ""]}
ErrorLists == UNION {[1..n -> GraphQLErrors] : n \in 0..MaxErrors}

\* a response body that is a mapping
Body(summary, obs, field_map, root) ==
    [k |-> "dict", summary |-> summary, obs_summary |-> SubAbsent, obs |-> obs,
     field_map |-> field_map, root |-> root]

\* the response bodies the Tempest API gives in the behaviours of the whole
\* handler: each way the extraction and the observation count can come out
FetchBodies ==
    {Body(SubDictKey(PyNum(1)), ObsAbsent, FmAbsent, RootAbsent),
     Body(SubAbsent, ObsList(<<ElDictNoKey>>), FmAbsent, RootKey(PyNum(2))),
     Body(SubAbsent, ObsList(<<Earlier, ElArray(<<PyNum(1)>>)>>),
          FmDict(<<[idx |-> <<"0">>, name |-> TargetKey]>>), RootAbsent),
     Body(SubAbsent, ObsList(<<ElArray(<<PyNum(1)>>)>>), FmAbsent, RootAbsent),
     Body(SubNum, ObsAbsent, FmAbsent, RootKey(PyNum(2))),
     Body(SubAbsent, ObsNull, FmAbsent, RootAbsent),
     NonDict("list")}

(***************************************************************************)
(* Records of the model.                                                   *)
(***************************************************************************)
\* one call to another system: the operation, the farm and sensor ids it
\* carried or returned, how it ended, and the `errors` list of the answer
Call(op, farm, sensor, outcome) ==
    [op |-> op, farm |-> farm, sensor |-> sensor, outcome |-> outcome, errors |-> <<>>]

NoError == [kind |-> "", msgs |-> <<>>]
Raised(kind) == [kind |-> kind, msgs |-> <<>>]

NoResult ==
    [keys |-> {}, status |-> "", rainfall_mm |-> PyNone, rainfall_inches |-> 0,
     date |-> 0, observations_count |-> 0, agriwebb_updated |-> FALSE]

\* main.py lines 121-130
SuccessResult(mm, inches, day, count) ==
    [keys |-> {"status", "message", "event_time", "rainfall_mm", "rainfall_inches",
               "date", "observations_count", "agriwebb_updated"},
     status |-> "success", rainfall_mm |-> mm, rainfall_inches |-> inches,
     date |-> day, observations_count |-> count, agriwebb_updated |-> TRUE]

\* the skipped update reported as done
PartialResult_Updated(count) ==
    [keys |-> {"status", "message", "event_time", "observations_count",
               "rainfall_mm", "agriwebb_updated"},
     status |-> "partial_success", rainfall_mm |-> PyNone, rainfall_inches |-> 0,
     date |-> 0, observations_count |-> count, agriwebb_updated |-> TRUE]

\* main.py lines 135-142
PartialResult(count) ==
    [keys |-> {"status", "message", "event_time", "observations_count",
               "rainfall_mm", "agriwebb_updated"},
     status |-> "partial_success", rainfall_mm |-> PyNone, rainfall_inches |-> 0,
     date |-> 0, observations_count |-> count, agriwebb_updated |-> FALSE]

(***************************************************************************)
(* Arithmetic of main.py and agriwebb.py.                                  *)
(***************************************************************************)
SecondsPerDay == 86400
\* MM_TO_INCHES = 1 / 25.4: tenths of a millimetre in an inch
TenthsMmPerInch == 254

\* a / b rounded to the nearest integer, for a >= 0 and b > 0
RoundDiv(a, b) == (2 * a + b) \div (2 * b)

\* main.py line 92: round(rainfall_mm * MM_TO_INCHES, 3), in thousandths of an
\* inch.  For a whole number of mm the quotient is never half way between two
\* thousandths (10000 * mm is even, 127 is odd), so nearest is well defined.
ToInches(mm) == RoundDiv(mm * 10000, TenthsMmPerInch)

\* agriwebb.py lines 153, 164: `value: %.2f`, in hundredths of an inch
FormatValue(thousandths) == RoundDiv(thousandths, 10)

\* main.py lines 96-100 and tempest.py lines 31-33: the calendar day before `now`
Yesterday(now) == now - 1
MidnightSeconds(day) == day * SecondsPerDay

\* the first two arguments of the format string in the wrong order
MutationInput_IdsSwapped(farm, sensor, inches, ms) ==
    [farmId |-> sensor, sensorId |-> farm, value |-> RoundDiv(inches, 10),
     unit |-> "inch", mode |-> "cumulative", time |-> ms]

\* agriwebb.py lines 148-164: the addRainfalls input
MutationInput(farm, sensor, inches, ms) ==
    [farmId |-> farm, sensorId |-> sensor, value |-> FormatValue(inches),
     unit |-> RAIN_GAUGE_UNIT, mode |-> RAIN_GAUGE_MODE, time |-> ms]

\* tempest.py lines 53-57: the observations list taken from the body
Observations(data) ==
    IF data.k = "dict"
    THEN (IF data.obs.k = "absent" THEN ObsList(<<>>) ELSE data.obs)
    ELSE ObsList(<<>>)

\* tempest.py lines 62-83: the observations kept are the non-empty lists and
\* the mappings
Kept(o) == o.k = "dict" \/ (o.k = "list" /\ Len(o.items) > 0)
CountKept(obs) == Cardinality({i \in DOMAIN obs.elems : Kept(obs.elems[i])})

(***************************************************************************)
(* lambda_handler, one action per step.                                    *)
(***************************************************************************)
Init ==
    /\ pc = "idle"
    /\ inv = 0
    /\ clock = 1
    /\ features \in FeatureMaps
    /\ stored = FALSE
    /\ api_response = NonDict("null")
    /\ observations_count = 0
    /\ time_start = 0
    /\ rainfall_mm = PyNone
    /\ rainfall_inches = 0
    /\ date = 0
    /\ time_ms = 0
    /\ farm_id = NoneId
    /\ sensor_id = NoneId
    /\ calls = <<>>
    /\ result = NoResult
    /\ error = NoError

\* the locals of a lambda_handler frame that has not run, or is gone
NoLocals ==
    /\ api_response' = NonDict("null")
    /\ observations_count' = 0
    /\ time_start' = 0
    /\ rainfall_mm' = PyNone
    /\ rainfall_inches' = 0
    /\ date' = 0
    /\ time_ms' = 0
    /\ farm_id' = NoneId
    /\ sensor_id' = NoneId

\* main.py lines 147-150: the exception is logged and raised again, which
\* ends the invocation
Fail(e) ==
    /\ pc' = "failed"
    /\ error' = e
    /\ UNCHANGED result
    /\ NoLocals

\* main.py line 146: the result is returned, which ends the invocation
Return(r) ==
    /\ pc' = "done"
    /\ result' = r
    /\ UNCHANGED error
    /\ NoLocals

\* the event source invokes lambda_handler (main.py lines 43-61)
Invoke ==
    /\ pc \in {"idle", "done", "failed"}
    /\ inv < MaxInvocations
    /\ inv' = inv + 1
    /\ pc' = "ssm_tempest_token"
    /\ calls' = <<>>
    /\ result' = NoResult
    /\ error' = NoError
    /\ stored' = FALSE
    /\ NoLocals
    /\ UNCHANGED <<clock, features>>

\* utils.py lines 15-49, get_parameter_from_ssm: the value, or ValueError
GetParameter(here, name, next) ==
    /\ pc = here
    /\ \E ok \in BOOLEAN :
        /\ calls' = Append(calls, Call(name, NoneId, NoneId, IF ok THEN "ok" ELSE "ValueError"))
        /\ IF ok THEN pc' = next /\ UNCHANGED <<locals, result, error>>
                 ELSE Fail(Raised("ValueError"))
    /\ UNCHANGED <<inv, clock, remote>>

\* main.py line 65
GetTempestToken ==
    GetParameter("ssm_tempest_token", "ssm:tempest.token", "ssm_station_id")

\* main.py line 69
GetStationId ==
    GetParameter("ssm_station_id", "ssm:tempest.station_id", "fetch")

\* the GET is issued again, once, when the request fails
Fetch_RetryOnce ==
    /\ pc = "fetch"
    /\ \E outcome \in {"RequestException", "ok"} :
        /\ calls' = Append(calls, Call("tempest:observations", NoneId, NoneId, outcome))
        /\ IF outcome = "ok"
           THEN \E data \in FetchBodies :
                  /\ Observations(data).k \notin {"null", "num"}
                  /\ time_start' = MidnightSeconds(Yesterday(clock))
                  /\ api_response' = data
                  /\ observations_count' = CountKept(Observations(data))
                  /\ pc' = "extract"
                  /\ UNCHANGED <<rainfall_mm, rainfall_inches, date, time_ms,
                                 farm_id, sensor_id, result, error>>
           ELSE IF \E i \in DOMAIN calls : calls[i].op = "tempest:observations"
                THEN Fail(Raised(outcome))
                ELSE UNCHANGED <<pc, locals, result, error>>
    /\ UNCHANGED <<inv, clock, remote>>

\* main.py lines 74-77 and tempest.py lines 30-92, get_yesterday_rainfall_data
Fetch ==
    /\ pc = "fetch"
    /\ \E outcome \in {"RequestException", "JSONDecodeError", "ok"} :
        /\ calls' = Append(calls, Call("tempest:observations", NoneId, NoneId, outcome))
        /\ IF outcome # "ok"
           THEN Fail(Raised(outcome))
           ELSE \E data \in FetchBodies :
                  IF Observations(data).k \in {"null", "num"}
                  THEN \* line 59: len(observations) raises TypeError
                       Fail(Raised("TypeError"))
                  ELSE /\ time_start' = MidnightSeconds(Yesterday(clock))
                       /\ api_response' = data
                       /\ observations_count' = CountKept(Observations(data))
                       /\ pc' = "extract"
                       /\ UNCHANGED <<rainfall_mm, rainfall_inches, date, time_ms,
                                      farm_id, sensor_id, result, error>>
    /\ UNCHANGED <<inv, clock, remote>>

\* main.py line 86
Extract ==
    /\ pc = "extract"
    /\ LET r == extract_precip_accum_local_yesterday(api_response)
       IN  IF r.st = "raise"
           THEN Fail(Raised(r.exc))
           ELSE /\ pc' = "extracted"
                /\ rainfall_mm' = r.v
                /\ UNCHANGED <<api_response, observations_count, time_start,
                               rainfall_inches, date, time_ms, farm_id, sensor_id,
                               result, error>>
    /\ UNCHANGED <<inv, clock, remote, calls>>

\* the `is not None` test left out: the conversion runs on whatever was extracted
Convert_WithoutNoneTest ==
    /\ pc = "extracted"
    /\ rainfall_inches' = ToInches(rainfall_mm.n)
    /\ date' = Yesterday(clock)
    /\ time_ms' = MidnightSeconds(Yesterday(clock)) * 1000
    /\ pc' = "ssm_agriwebb_token"
    /\ UNCHANGED <<inv, clock, remote, api_response, observations_count, time_start,
                   rainfall_mm, farm_id, sensor_id, calls, result, error>>

\* main.py lines 88-100: unit conversion, and yesterday's date and timestamp
Convert ==
    /\ pc = "extracted"
    /\ rainfall_mm # PyNone
    /\ rainfall_inches' = ToInches(rainfall_mm.n)
    /\ date' = Yesterday(clock)
    /\ time_ms' = MidnightSeconds(Yesterday(clock)) * 1000
    /\ pc' = "ssm_agriwebb_token"
    /\ UNCHANGED <<inv, clock, remote, api_response, observations_count, time_start,
                   rainfall_mm, farm_id, sensor_id, calls, result, error>>

\* main.py lines 131-146: nothing extracted, nothing published
PartialSuccess ==
    /\ pc = "extracted"
    /\ rainfall_mm = PyNone
    /\ Return(PartialResult(observations_count))
    /\ UNCHANGED <<inv, clock, remote, calls>>

\* main.py line 104
GetAgriwebbToken ==
    GetParameter("ssm_agriwebb_token", "ssm:agriwebb.access_token", "ssm_farm_id")

\* main.py line 105
GetFarmId ==
    /\ pc = "ssm_farm_id"
    /\ \/ \E f \in Farms :
            /\ farm_id' = f
            /\ calls' = Append(calls, Call("ssm:agriwebb.farm_id", f, NoneId, "ok"))
            /\ pc' = "lookup"
            /\ UNCHANGED <<api_response, observations_count, time_start, rainfall_mm,
                           rainfall_inches, date, time_ms, sensor_id, result, error>>
       \/ /\ calls' = Append(calls, Call("ssm:agriwebb.farm_id", NoneId, NoneId, "ValueError"))
          /\ Fail(Raised("ValueError"))
    /\ UNCHANGED <<inv, clock, remote>>

\* agriwebb.py lines 107-110: the id of the first feature returned, or None
FirstId(mapFeatures) == IF Len(mapFeatures) > 0 THEN mapFeatures[1] ELSE NoneId

\* agriwebb.py lines 138-139 and 70-118, get_rain_gauge_sensor_id: the request
\* fails, or the body cannot be decoded, or it has no data.mapFeatures, or
\* mapFeatures is null, or it lists the features that pass the filter
LookupSensor ==
    /\ pc = "lookup"
    /\ \E outcome \in {"RequestException", "JSONDecodeError", "KeyError", "null", "ok"} :
        LET found == CASE outcome = "ok" -> FirstId(MapFeaturesQuery(features, farm_id))
                       [] OTHER -> NoneId
        IN  /\ calls' = Append(calls, Call("agriwebb:mapFeatures", farm_id, found, outcome))
            /\ IF outcome \in {"ok", "null"}
               THEN /\ sensor_id' = found
                    /\ pc' = IF found # NoneId THEN "publish" ELSE "create"
                    /\ UNCHANGED <<api_response, observations_count, time_start,
                                   rainfall_mm, rainfall_inches, date, time_ms, farm_id,
                                   result, error>>
               ELSE Fail(Raised(outcome))
    /\ UNCHANGED <<inv, clock, remote>>

\* agriwebb.py lines 140-141: no rain gauge was found.  The module defines no
\* create_rain_gauge and imports none, so the call raises NameError; lines
\* 142-146 are never reached
CreateRainGauge ==
    /\ pc = "create"
    /\ Fail(Raised("NameError"))
    /\ UNCHANGED <<inv, clock, remote, calls>>

\* agriwebb.py line 189: the message of each error, or str(err)
ErrorMessages(errs) ==
    [i \in DOMAIN errs |-> IF errs[i].has THEN errs[i].message ELSE "{}"]

\* only the first error is reported
GraphQLFailure_FirstOnly(errs) ==
    [kind |-> "ValueError",
     msgs |-> IF errs = <<>> THEN <<>> ELSE <<ErrorMessages(errs)[1]>>]

\* agriwebb.py lines 188-190: an `errors` key in the result raises one
\* ValueError that joins the messages
GraphQLFailure(errs) == [kind |-> "ValueError", msgs |-> ErrorMessages(errs)]

\* the mutation is sent again, once, when its answer is lost
Publish_RetryOnTimeout ==
    /\ pc = "publish"
    /\ LET input == [farmId |-> farm_id, sensorId |-> sensor_id]
           sent(outcome) == Call("agriwebb:addRainfalls", input.farmId, input.sensorId, outcome)
       IN  \E outcome \in {"Timeout", "ok"}, applied \in BOOLEAN :
            /\ outcome = "ok" => applied
            /\ stored' = (stored \/ applied)
            /\ calls' = Append(calls, sent(outcome))
            /\ IF outcome = "ok"
               THEN Return(SuccessResult(rainfall_mm, rainfall_inches, date,
                                         observations_count))
               ELSE IF Len(calls) > 0 /\ calls[Len(calls)].op = "agriwebb:addRainfalls"
                    THEN Fail(Raised(outcome))
                    ELSE UNCHANGED <<pc, locals, result, error>>
    /\ UNCHANGED <<inv, clock, features>>

\* agriwebb.py lines 148-203 and main.py lines 109-146: the addRainfalls
\* mutation is sent.  AgriWebb never receives it (the connection fails), or
\* the answer is lost, is not 2xx or cannot be decoded, or it carries an
\* `errors` list, or it is a result.  Whether AgriWebb stored the rainfall is
\* known only for a connection failure (no) and for a result (yes).
Publish ==
    /\ pc = "publish"
    /\ LET input == MutationInput(farm_id, sensor_id, rainfall_inches, time_ms)
           sent(outcome) == Call("agriwebb:addRainfalls", input.farmId, input.sensorId, outcome)
       IN  \E outcome \in {"ConnectionError", "Timeout", "HTTPError", "JSONDecodeError",
                           "errors", "ok"}, applied \in BOOLEAN :
            /\ outcome = "ConnectionError" => ~applied
            /\ outcome = "errors" => ~applied
            /\ outcome = "ok" => applied
            /\ stored' = applied
            /\ CASE outcome = "ok" ->
                        /\ calls' = Append(calls, sent(outcome))
                        /\ Return(SuccessResult(rainfall_mm, rainfall_inches, date,
                                                observations_count))
                 [] outcome = "errors" ->
                        \E errs \in ErrorLists :
                            /\ calls' = Append(calls, [sent(outcome) EXCEPT !.errors = errs])
                            /\ Fail(GraphQLFailure(errs))
                 [] OTHER ->
                        /\ calls' = Append(calls, sent(outcome))
                        /\ Fail(Raised(outcome))
    /\ UNCHANGED <<inv, clock, features>>

(***************************************************************************)
(* The environment.                                                        *)
(***************************************************************************)
\* the UTC date changes
Tick ==
    /\ clock < MaxDay
    /\ clock' = clock + 1
    /\ UNCHANGED <<pc, inv, remote, locals, calls, result, error>>

\* between invocations the farm's map is edited in AgriWebb
EditMap ==
    /\ pc \in {"done", "failed"}
    /\ inv < MaxInvocations
    /\ \E i \in 1..MaxFeatures, slot \in FeatureSlots :
        /\ features[i] # slot
        /\ features' = [features EXCEPT ![i] = slot]
    /\ UNCHANGED <<pc, inv, clock, stored, locals, calls, result, error>>

Next ==
    \/ Invoke
    \/ GetTempestToken
    \/ GetStationId
    \/ Fetch
    \/ Extract
    \/ Convert
    \/ PartialSuccess
    \/ GetAgriwebbToken
    \/ GetFarmId
    \/ LookupSensor
    \/ CreateRainGauge
    \/ Publish
    \/ Tick
    \/ EditMap

Spec == Init /\ [][Next]_vars

(***************************************************************************)
(* The extractor on its own: main.py line 86 reached with any response of  *)
(* the model.                                                              *)
(***************************************************************************)
InitExtract ==
    /\ pc = "extract"
    /\ inv = 1
    /\ clock = 1
    /\ features = [i \in 1..MaxFeatures |-> NoFeature]
    /\ stored = FALSE
    /\ api_response \in Responses
    /\ observations_count = 0
    /\ time_start = 0
    /\ rainfall_mm = PyNone
    /\ rainfall_inches = 0
    /\ date = 0
    /\ time_ms = 0
    /\ farm_id = NoneId
    /\ sensor_id = NoneId
    /\ calls = <<>>
    /\ result = NoResult
    /\ error = NoError

SpecExtract == InitExtract /\ [][Extract]_vars

(***************************************************************************)
(* The four places the extractor looks at, as the specification describes  *)
(* them.  A place holds the key, or is empty, or is mis-shaped: probing it *)
(* raises, and the extractor's catch-all then returns None.                *)
(***************************************************************************)
Holds(v) == [is |-> "holds", v |-> v]
Empty == [is |-> "empty", v |-> PyNone]
Misshaped == [is |-> "misshaped", v |-> PyNone]

\* summary, obs_summary: a mapping with the key; a non-empty value that is
\* no mapping is mis-shaped
SubPlace(x) ==
    IF x.k = "dict" THEN (IF x.has THEN Holds(x.v) ELSE Empty)
    ELSE IF x.k \in {"num", "str"} THEN Misshaped
    ELSE Empty

HasLatest(r) == r.obs.k = "list" /\ r.obs.elems # <<>>
Latest(r) == r.obs.elems[Len(r.obs.elems)]
\* the field_map entries that name the key
TargetEntries(r) == {i \in DOMAIN r.field_map.entries : r.field_map.entries[i].name = TargetKey}

\* the last element of obs: the key of a mapping, or the position that the
\* first field_map entry naming the key gives in a sequence
ObsPlace(r) ==
    IF r.obs.k \in {"num", "dict"} THEN Misshaped
    ELSE IF ~HasLatest(r) THEN Empty
    ELSE IF Latest(r).k = "dict"
         THEN (IF Latest(r).has THEN Holds(Latest(r).v) ELSE Empty)
    ELSE IF Latest(r).k # "list" \/ Latest(r).items = <<>> THEN Empty
    ELSE IF r.field_map.k = "list" THEN Misshaped
    ELSE IF TargetEntries(r) = {} THEN Empty
    ELSE LET e == r.field_map.entries[CHOOSE i \in TargetEntries(r) :
                                          \A j \in TargetEntries(r) : i <= j]
         IN  IF ~AllDigits(e.idx) THEN Misshaped
             ELSE IF DigitsVal(e.idx) < Len(Latest(r).items)
                  THEN Holds(Latest(r).items[DigitsVal(e.idx) + 1])
                  ELSE Empty

RootPlace(r) == IF r.root.has THEN Holds(r.root.v) ELSE Empty

\* the places of a mapping response, in the order of the specification
Places(r) == <<SubPlace(r.summary), SubPlace(r.obs_summary), ObsPlace(r), RootPlace(r)>>

\* the first place that is not empty, or 0
FirstNonEmpty(ps) ==
    IF \A i \in DOMAIN ps : ps[i].is = "empty" THEN 0
    ELSE CHOOSE i \in DOMAIN ps : ps[i].is # "empty" /\ \A j \in 1..(i - 1) : ps[j].is = "empty"

\* the first place that holds the key, or 0
FirstHolding(ps) ==
    IF \A i \in DOMAIN ps : ps[i].is # "holds" THEN 0
    ELSE CHOOSE i \in DOMAIN ps : ps[i].is = "holds" /\ \A j \in 1..(i - 1) : ps[j].is # "holds"

NoneMisshaped(ps) == \A i \in DOMAIN ps : ps[i].is # "misshaped"

Extracted == pc = "extracted"

(***************************************************************************)
(* C1 (as stated).  For a mapping response the extractor returns the value *)
(* of the first of summary, obs_summary, last obs element, top level that  *)
(* contains the key, whatever the other places are.                        *)
(***************************************************************************)
C1_FirstHoldingPlaceWins ==
    (Extracted /\ api_response.k = "dict" /\ FirstHolding(Places(api_response)) # 0)
        => rainfall_mm = Places(api_response)[FirstHolding(Places(api_response))].v

(***************************************************************************)
(* C1 (amended).  For a mapping response the extractor returns the value   *)
(* of the first place, in the order summary, obs_summary, last obs         *)
(* element, top level, that contains the key, unless a place probed        *)
(* before it is mis-shaped, when it returns None.  In particular a summary *)
(* mapping that contains the key decides the result, whatever obs_summary, *)
(* obs, field_map and the top level contain.                               *)
(***************************************************************************)
C1_FirstMatchUnlessMisshaped ==
    (Extracted /\ api_response.k = "dict") =>
        LET ps == Places(api_response)
            i == FirstNonEmpty(ps)
        IN  /\ (i # 0 /\ ps[i].is = "holds") => rainfall_mm = ps[i].v
            /\ (i # 0 /\ ps[i].is = "misshaped") => rainfall_mm = PyNone
            /\ (api_response.summary.k = "dict" /\ api_response.summary.has)
                    => rainfall_mm = api_response.summary.v

\* summary and obs_summary and the top level hold different readings, and
\* summary's is returned
C1_Witness ==
    /\ Extracted
    /\ api_response.summary = SubDictKey(PyNum(1))
    /\ api_response.obs_summary = SubDictKey(PyNum(2))
    /\ api_response.root = RootKey(PyNum(2))
    /\ HasLatest(api_response)
    /\ rainfall_mm = PyNum(1)

(***************************************************************************)
(* C2 (as stated).  obs is non-empty, its last element yields no value,    *)
(* and neither summary nor obs_summary contains the key: the extractor     *)
(* returns None, the top-level key being consulted only without an obs     *)
(* list.                                                                   *)
(***************************************************************************)
ObsYieldsNothing(r) ==
    /\ r.k = "dict"
    /\ HasLatest(r)
    /\ Latest(r).k \in {"dict", "list"}
    /\ ObsPlace(r).is # "holds"
    /\ SubPlace(r.summary).is # "holds"
    /\ SubPlace(r.obs_summary).is # "holds"

C2_AbsenceWhenObsYieldsNothing ==
    (Extracted /\ ObsYieldsNothing(api_response)) => rainfall_mm = PyNone

(***************************************************************************)
(* C2 (amended).  In such a response the extractor returns None when the   *)
(* top level does not contain the key; when it does, and no place is       *)
(* mis-shaped, the extractor returns the top-level value: the top-level    *)
(* key is consulted whenever the places before it yield nothing, with or   *)
(* without an obs list.                                                    *)
(***************************************************************************)
C2_TopLevelAfterObs ==
    (Extracted /\ ObsYieldsNothing(api_response)) =>
        /\ ~api_response.root.has => rainfall_mm = PyNone
        /\ (api_response.root.has /\ NoneMisshaped(Places(api_response)))
                => rainfall_mm = api_response.root.v

\* an obs list whose last element is a mapping without the key, and the key
\* at the top level: the top-level reading is returned
C2_Witness ==
    /\ Extracted
    /\ ObsYieldsNothing(api_response)
    /\ Latest(api_response) = ElDictNoKey
    /\ api_response.root = RootKey(PyNum(2))
    /\ rainfall_mm = PyNum(2)

(***************************************************************************)
(* C10.  The extractor never raises: whatever the shape of the response    *)
(* (no mapping, a summary or obs_summary that is no mapping, an empty obs, *)
(* a field_map index that is no integer) it returns None or a value found  *)
(* at one of the places it probes.                                         *)
(***************************************************************************)
ProbedValues(r) ==
    {r.summary.v, r.obs_summary.v, r.root.v}
        \cup (IF HasLatest(r)
              THEN {Latest(r).v} \cup {Latest(r).items[i] : i \in DOMAIN Latest(r).items}
              ELSE {})

C10_NeverRaises ==
    /\ pc # "failed"
    /\ Extracted => rainfall_mm \in ProbedValues(api_response) \cup {PyNone}

\* a field_map index that is no integer, below a top level that holds the key
C10_Witness ==
    /\ Extracted
    /\ HasLatest(api_response)
    /\ ObsPlace(api_response).is = "misshaped"
    /\ api_response.field_map.k = "dict"
    /\ api_response.root = RootKey(PyNum(1))
    /\ api_response.summary = SubNull
    /\ rainfall_mm = PyNone

(***************************************************************************)
(* What an invocation did, read from its calls.                            *)
(***************************************************************************)
AgriwebbOps == {"ssm:agriwebb.access_token", "ssm:agriwebb.farm_id",
                "agriwebb:mapFeatures", "agriwebb:createRainGauge",
                "agriwebb:addRainfalls"}
CallsOf(op) == {i \in DOMAIN calls : calls[i].op = op}
Lookups == CallsOf("agriwebb:mapFeatures")
Mutations == CallsOf("agriwebb:addRainfalls")
\* the first sensor lookup was answered, with no match
FirstLookupNoMatch ==
    /\ Lookups # {}
    /\ LET i == CHOOSE k \in Lookups : \A j \in Lookups : k <= j
       IN  calls[i].outcome \in {"ok", "null"} /\ calls[i].sensor = NoneId

(***************************************************************************)
(* C3.  When the extractor returns None the handler returns a result with  *)
(* status partial_success, agriwebb_updated false and rainfall_mm null,    *)
(* and the invocation makes no farm-management step: no AgriWebb           *)
(* credential read, no sensor lookup or creation, no addRainfalls.         *)
(***************************************************************************)
C3_AbsenceSkipsAgriwebb ==
    /\ [](result.status = "partial_success" =>
            /\ ~result.agriwebb_updated
            /\ "rainfall_mm" \in result.keys /\ result.rainfall_mm = PyNone
            /\ \A i \in DOMAIN calls : calls[i].op \notin AgriwebbOps)
    /\ [][(pc = "extracted" /\ rainfall_mm = PyNone /\ pc' # pc) =>
            /\ pc' = "done"
            /\ result'.status = "partial_success"
            /\ calls' = calls]_vars

\* an invocation that extracted nothing has returned
C3_Witness ==
    /\ pc = "done"
    /\ result.status = "partial_success"
    /\ \E i \in DOMAIN calls : calls[i].op = "tempest:observations" /\ calls[i].outcome = "ok"

(***************************************************************************)
(* C4.  When the first sensor lookup finds no match, the creation of a     *)
(* rain gauge is attempted exactly once; if the lookup after it finds no   *)
(* match either, the invocation fails with ValueError 'Rain gauge sensor   *)
(* ID not found' and addRainfalls is never sent.                           *)
(***************************************************************************)
C4_CreateOnceThenLookupAgain ==
    (pc \in {"done", "failed"} /\ FirstLookupNoMatch) =>
        /\ Cardinality(CallsOf("agriwebb:createRainGauge")) = 1
        /\ (Cardinality(Lookups) = 2
            /\ \A i \in Lookups : calls[i].outcome \in {"ok", "null"} /\ calls[i].sensor = NoneId)
                => (pc = "failed" /\ error.kind = "ValueError" /\ Mutations = {})

(***************************************************************************)
(* C5.  Whenever addRainfalls is sent, its sensorId is a non-null id that  *)
(* a sensor lookup of the same invocation returned, and its farmId is the  *)
(* farm that lookup was scoped to.                                         *)
(***************************************************************************)
C5_SensorResolvedInSameInvocation ==
    \A i \in Mutations :
        /\ calls[i].sensor # NoneId
        /\ \E j \in Lookups :
            /\ j < i
            /\ calls[j].outcome = "ok"
            /\ calls[j].sensor = calls[i].sensor
            /\ calls[j].farm = calls[i].farm

\* the second invocation publishes
C5_Witness ==
    /\ inv = 2
    /\ pc = "done"
    /\ Mutations # {}

(***************************************************************************)
(* C6 (as stated).  An invocation that ends in failure has made no         *)
(* mutation on AgriWebb.                                                   *)
(***************************************************************************)
C6_FailureMeansNothingStored == pc = "failed" => ~stored

(***************************************************************************)
(* C6 (amended).  addRainfalls is the only mutating request, it is sent at *)
(* most once and no call follows it, and an invocation that fails before   *)
(* it is sent has made no mutation.  An invocation can fail after it was   *)
(* sent, on its own answer; AgriWebb may then have stored the rainfall     *)
(* when the answer was lost, not 2xx or not decodable.                     *)
(***************************************************************************)
C6_PublishIsLastCall ==
    /\ \A i \in Mutations : i = Len(calls)
    /\ CallsOf("agriwebb:createRainGauge") = {}
    /\ stored => Mutations # {}
    /\ (pc = "failed" /\ stored) =>
            calls[Len(calls)].outcome \in {"Timeout", "HTTPError", "JSONDecodeError"}

\* AgriWebb stored the rainfall and the invocation failed
C6_Witness ==
    /\ pc = "failed"
    /\ stored
    /\ calls[Len(calls)].outcome = "Timeout"

(***************************************************************************)
(* C7.  When the answer to addRainfalls is 2xx and decodable and carries   *)
(* an errors list, update_rainfall raises one ValueError whose message     *)
(* holds every error's message, and lambda_handler raises: it returns no   *)
(* result.                                                                 *)
(***************************************************************************)
C7_EmbeddedErrorsFail ==
    \A i \in Mutations :
        calls[i].outcome = "errors" =>
            /\ pc = "failed"
            /\ result = NoResult
            /\ error.kind = "ValueError"
            /\ \A k \in DOMAIN calls[i].errors :
                calls[i].errors[k].has =>
                    \E m \in DOMAIN error.msgs : error.msgs[m] = calls[i].errors[k].message

\* two errors with different messages
C7_Witness ==
    /\ pc = "failed"
    /\ \E i \in Mutations :
        /\ calls[i].outcome = "errors"
        /\ Len(calls[i].errors) = 2
        /\ calls[i].errors[1].has /\ calls[i].errors[2].has
        /\ calls[i].errors[1].message # calls[i].errors[2].message

(***************************************************************************)
(* C8.  A result has status success or partial_success; it is success      *)
(* exactly when agriwebb_updated is true, which is exactly when            *)
(* addRainfalls was sent and answered without error in the invocation;     *)
(* rainfall_inches and date are present exactly on success, and            *)
(* rainfall_mm is null exactly on partial_success.                         *)
(***************************************************************************)
C8_ResultRecord ==
    /\ (pc = "done") <=> (result # NoResult)
    /\ result # NoResult =>
        /\ result.status \in {"success", "partial_success"}
        /\ (result.status = "success") <=> result.agriwebb_updated
        /\ result.agriwebb_updated <=> (\E i \in Mutations : calls[i].outcome = "ok")
        /\ ("rainfall_inches" \in result.keys) <=> (result.status = "success")
        /\ ("date" \in result.keys) <=> (result.status = "success")
        /\ (result.rainfall_mm = PyNone) <=> (result.status = "partial_success")

C8_Witness ==
    /\ pc = "done"
    /\ result.status = "success"
    /\ result.rainfall_mm = PyNum(2)

(***************************************************************************)
(* C9.  The sensor id the lookup returns, and the publish uses, is that of *)
(* a rain gauge of the given farm whose name is RAIN_GAUGE_NAME.           *)
(***************************************************************************)
C9_SensorHasConfiguredName ==
    pc = "publish" =>
        /\ features[sensor_id.n].present
        /\ features[sensor_id.n].type = "RAIN_GAUGE"
        /\ features[sensor_id.n].farmId = farm_id
        /\ features[sensor_id.n].name = RAIN_GAUGE_NAME

(***************************************************************************)
(* C11.  When the first sensor lookup finds no rain gauge, update_rainfall *)
(* sends the creation request and, unless that request itself fails,       *)
(* makes the second lookup; a gauge the second lookup finds is the one     *)
(* addRainfalls is sent to.  So an invocation whose first lookup found     *)
(* nothing fails before the second lookup only on the creation request.    *)
(***************************************************************************)
C11_CreateThenSecondLookup ==
    /\ (pc = "failed" /\ FirstLookupNoMatch /\ Cardinality(Lookups) < 2) =>
            \E i \in CallsOf("agriwebb:createRainGauge") : calls[i].outcome # "ok"
    /\ (FirstLookupNoMatch /\ Mutations # {}) =>
            /\ Cardinality(Lookups) = 2
            /\ \E j \in Lookups, i \in Mutations :
                /\ j < i
                /\ calls[j].sensor # NoneId
                /\ calls[i].sensor = calls[j].sensor

(***************************************************************************)
(* C12.  The calls of one invocation are, in this order and each at most   *)
(* once: the two weather credentials, the weather GET, the two             *)
(* farm-management credentials, the sensor lookup, then either             *)
(* addRainfalls or a sensor creation, a second lookup and addRainfalls.    *)
(* The extraction comes between the weather GET and the farm-management    *)
(* credentials.  A call that ends in an error (transport, status, body or  *)
(* a missing parameter) is the last call and the invocation has failed.    *)
(***************************************************************************)
StepsResolved ==
    <<"ssm:tempest.token", "ssm:tempest.station_id", "tempest:observations",
      "ssm:agriwebb.access_token", "ssm:agriwebb.farm_id",
      "agriwebb:mapFeatures", "agriwebb:addRainfalls">>
StepsCreated ==
    <<"ssm:tempest.token", "ssm:tempest.station_id", "tempest:observations",
      "ssm:agriwebb.access_token", "ssm:agriwebb.farm_id",
      "agriwebb:mapFeatures", "agriwebb:createRainGauge",
      "agriwebb:mapFeatures", "agriwebb:addRainfalls">>
IsPrefixOfSteps(steps) ==
    /\ Len(calls) <= Len(steps)
    /\ \A i \in DOMAIN calls : calls[i].op = steps[i]
Answered == {"ok", "null"}

C12_LinearNoRetry ==
    /\ IsPrefixOfSteps(StepsResolved) \/ IsPrefixOfSteps(StepsCreated)
    /\ \A i \in DOMAIN calls :
        calls[i].outcome \notin Answered => (i = Len(calls) /\ pc = "failed")
    /\ pc \in {"extract", "extracted"} => Len(calls) = 3
    /\ (Len(calls) > 3 /\ pc \notin {"done", "failed"}) => rainfall_mm # PyNone

\* the lookup's request failed after the five calls before it, and the
\* invocation failed without another call
C12_Witness ==
    /\ pc = "failed"
    /\ Len(calls) = 6
    /\ calls[6].op = "agriwebb:mapFeatures"
    /\ calls[6].outcome = "RequestException"
    /\ calls[3].op = "tempest:observations" /\ calls[3].outcome = "ok"

(***************************************************************************)
(* C13.  The timestamp addRainfalls is sent with is midnight UTC of the    *)
(* day whose window the weather fetch of the same invocation asked for:    *)
(* time = 1000 * time_start, whatever the clock did between the fetch's    *)
(* reading of it and the handler's.                                        *)
(***************************************************************************)
C13_PublishedDayIsFetchedDay ==
    pc = "publish" =>
        MutationInput(farm_id, sensor_id, rainfall_inches, time_ms).time
            = 1000 * time_start
====
